---- MODULE Spec2Model ----
(***************************************************************************)
(* GM-PENCIL (src/main.py): the Canvas widget's raster buffer, its bounded *)
(* undo/redo history of snapshots and the scanline bucket fill.            *)
(*                                                                         *)
(* Two specifications:                                                     *)
(*   Spec      the Canvas as an event-driven state machine, one action per *)
(*             Qt event handler or toolbar slot, each run to completion;   *)
(*   SpecFill  bucket_fill on its own, over every small buffer, seed and   *)
(*             fill color, one action per iteration of `while stack`.      *)
(*                                                                         *)
(* Qt's rasterisation (QPainter.drawLine/drawRect/drawEllipse) and image   *)
(* decoding/scaling are outside the repository: a drawing call recolors an *)
(* arbitrary set of pixels with the pen's color, a decoded image has       *)
(* arbitrary contents.  The fields start_point, last_point and pen_size    *)
(* only feed those calls and are therefore not part of the Canvas state;   *)
(* the press point is handed to bucket_fill directly, as in                *)
(* mousePressEvent.  Toolbar slots and resizes may come at any time, also  *)
(* while a mouse button is held (a focused button is triggered from the    *)
(* keyboard).                                                              *)
(***************************************************************************)
EXTENDS Integers, Sequences, FiniteSets, TLC

(***************************************************************************)
(* Bounds of the model.                                                    *)
(***************************************************************************)
\* Capacity of `history`: the literal 50 of save_state (src/main.py:95),
\* scaled down.  Every statement below is parametric in it.
HistoryLimit == 2

\* SpecFill explores every buffer of at most this many pixels.
MaxPixels == 5

(***************************************************************************)
(* Colors: QColor as its (red, green, blue) channels.  Every color the     *)
(* program handles is opaque (alpha 255), and alpha is never read by       *)
(* `similar`.                                                              *)
(***************************************************************************)
White == <<255, 255, 255>>
Black == <<0, 0, 0>>
\* Within the tolerance of Black on every channel, at its edge.
Dark == <<10, 10, 10>>
\* Differs from Black by more than the tolerance on the blue channel only.
Navy == <<0, 0, 11>>

\* What QImage.pixelColor returns for a point outside the image: QColor(),
\* whose channels read 0 and which equals no valid color.
InvalidColor == <<0, 0, 0, "invalid">>

\* Colors of the Canvas specification: the initial pen color, the color of
\* the eraser and of an empty canvas.  The pen keeps its initial color there
\* (pick_color is not used); SpecFill starts from every pen color.
CanvasColors == {White, Black}

\* Colors of the buffers and fills of SpecFill.
FillColors == {Black, Dark, Navy}

Tool == {"Pen", "Eraser", "Line", "Rectangle", "Ellipse", "Bucket"}

\* The tools the user selects in the Canvas specification.  Rectangle and
\* Ellipse take the branches of Line in every handler, up to the Qt call.
SelectedTools == {"Pen", "Eraser", "Line", "Bucket"}

\* Widget and pixmap sizes <<width, height>> of the Canvas specification.
Sizes == {<<1, 1>>, <<2, 1>>}

(***************************************************************************)
(* Pixel buffers (QPixmap / QImage): a size and a color for every pixel.   *)
(***************************************************************************)
Points(w, h) == (0 .. w - 1) \X (0 .. h - 1)

Filled(w, h, color) == [w |-> w, h |-> h, px |-> [p \in Points(w, h) |-> color]]

Pixmaps(w, h, colors) == {[w |-> w, h |-> h, px |-> f] : f \in [Points(w, h) -> colors]}

InBounds(img, x, y) == x >= 0 /\ x < img.w /\ y >= 0 /\ y < img.h

pixelColor(img, x, y) == IF InBounds(img, x, y) THEN img.px[<<x, y>>] ELSE InvalidColor

setPixelColor(img, x, y, color) == [img EXCEPT !.px[<<x, y>>] = color]

\* A QPainter drawing call with a pen of the given color: the pixels it
\* touches are decided by Qt, clipped to the buffer.
Draw(pm, S, color) == [pm EXCEPT !.px = [p \in Points(pm.w, pm.h) |-> IF p \in S THEN color ELSE pm.px[p]]]

Abs(n) == IF n < 0 THEN -n ELSE n

Tol == 10

similar(c1, c2) ==
    /\ Abs(c1[1] - c2[1]) <= Tol
    /\ Abs(c1[2] - c2[2]) <= Tol
    /\ Abs(c1[3] - c2[3]) <= Tol

(***************************************************************************)
(* bucket_fill, one iteration of `while stack` at a time.                  *)
(***************************************************************************)
RECURSIVE ScanLeft(_, _, _, _)
ScanLeft(img, left, y, target) ==
    IF left > 0 /\ similar(pixelColor(img, left - 1, y), target)
    THEN ScanLeft(img, left - 1, y, target)
    ELSE left

RECURSIVE ScanRight(_, _, _, _)
ScanRight(img, right, y, target) ==
    IF right < img.w - 1 /\ similar(pixelColor(img, right + 1, y), target)
    THEN ScanRight(img, right + 1, y, target)
    ELSE right

\* The body of `for i in range(left, right + 1)` from column i on: recolor
\* (i, y), push the neighbours above and below that still match the target.
RECURSIVE FillSpan(_, _, _, _, _, _, _)
FillSpan(img, stack, i, right, y, target, replacement) ==
    IF i > right
    THEN [img |-> img, stack |-> stack]
    ELSE LET img1 == setPixelColor(img, i, y, replacement)
             s1 == IF y > 0 /\ similar(pixelColor(img1, i, y - 1), target)
                   THEN Append(stack, <<i, y - 1>>)
                   ELSE stack
             s2 == IF y < img.h - 1 /\ similar(pixelColor(img1, i, y + 1), target)
                   THEN Append(s1, <<i, y + 1>>)
                   ELSE s1
         IN  FillSpan(img1, s2, i + 1, right, y, target, replacement)

\* One iteration of `while stack`: pop a point, skip it if it is outside the
\* buffer or no longer matches, else fill its span.  stack is non-empty.
FillIter(img, stack, target, replacement) ==
    LET p == stack[Len(stack)]
        rest == SubSeq(stack, 1, Len(stack) - 1)
        x == p[1]
        y == p[2]
    IN  IF x < 0 \/ x >= img.w \/ y < 0 \/ y >= img.h
        THEN [img |-> img, stack |-> rest]
        ELSE IF ~similar(pixelColor(img, x, y), target)
        THEN [img |-> img, stack |-> rest]
        ELSE FillSpan(img, rest, ScanLeft(img, x, y, target),
                      ScanRight(img, x, y, target), y, target, replacement)

\* No run that ends takes more iterations than this: a pixel recolored twice
\* is recolored for ever (checked in SpecFill as FuelSuffices).
Fuel(img) == 2 * img.w * img.h + 2

\* The loop run to its end: returned |-> FALSE when it does not end.
RECURSIVE RunFill(_, _, _, _, _)
RunFill(img, stack, target, replacement, fuel) ==
    IF stack = <<>> THEN [returned |-> TRUE, img |-> img]
    ELSE IF fuel = 0 THEN [returned |-> FALSE, img |-> img]
    ELSE LET r == FillIter(img, stack, target, replacement)
         IN  RunFill(r.img, r.stack, target, replacement, fuel - 1)

\* bucket_fill without its early return.
EarlyReturn_never(target, replacement) == FALSE

\* `if target_color == replacement_color: return`
EarlyReturn(target, replacement) == target = replacement

\* bucket_fill(point) on pixmap pm with pen color replacement.
bucket_fill(pm, point, replacement) ==
    LET target == pixelColor(pm, point[1], point[2])
    IN  IF EarlyReturn(target, replacement)
        THEN [returned |-> TRUE, img |-> pm]
        ELSE RunFill(pm, <<point>>, target, replacement, Fuel(pm))

(***************************************************************************)
(* The history, as functions of the canvas c = [pixmap, history,           *)
(* redo_stack].  QPixmap.copy() yields an equal buffer.                    *)
(***************************************************************************)
\* save_state keeping the redo stack.
save_state_keepsRedo(c) ==
    LET appended == Append(c.history, c.pixmap)
    IN  [c EXCEPT !.history = IF Len(appended) > HistoryLimit THEN Tail(appended) ELSE appended]

\* save_state evicting with pop() instead of pop(0).
save_state_evictsNewest(c) ==
    LET appended == Append(c.history, c.pixmap)
    IN  [c EXCEPT !.history = IF Len(appended) > HistoryLimit
                              THEN SubSeq(appended, 1, Len(appended) - 1)
                              ELSE appended,
                  !.redo_stack = <<>>]

save_state(c) ==
    LET appended == Append(c.history, c.pixmap)
    IN  [c EXCEPT !.history = IF Len(appended) > HistoryLimit THEN Tail(appended) ELSE appended,
                  !.redo_stack = <<>>]

\* undo restoring history.pop(0) instead of history.pop().
undo_popsOldest(c) ==
    IF c.history # <<>>
    THEN [pixmap |-> c.history[1],
          history |-> Tail(c.history),
          redo_stack |-> Append(c.redo_stack, c.pixmap)]
    ELSE c

\* undo without `if self.history`, the pop of an empty list skipped.
undo_unguarded(c) ==
    [pixmap |-> IF c.history # <<>> THEN c.history[Len(c.history)] ELSE c.pixmap,
     history |-> IF c.history # <<>> THEN SubSeq(c.history, 1, Len(c.history) - 1) ELSE c.history,
     redo_stack |-> Append(c.redo_stack, c.pixmap)]

undo(c) ==
    IF c.history # <<>>
    THEN [pixmap |-> c.history[Len(c.history)],
          history |-> SubSeq(c.history, 1, Len(c.history) - 1),
          redo_stack |-> Append(c.redo_stack, c.pixmap)]
    ELSE c

\* redo restoring redo_stack.pop(0) instead of redo_stack.pop().
redo_popsOldest(c) ==
    IF c.redo_stack # <<>>
    THEN [pixmap |-> c.redo_stack[1],
          history |-> Append(c.history, c.pixmap),
          redo_stack |-> Tail(c.redo_stack)]
    ELSE c

\* redo that leaves the snapshot it restores on redo_stack.
redo_keepsRedo(c) ==
    IF c.redo_stack # <<>>
    THEN [pixmap |-> c.redo_stack[Len(c.redo_stack)],
          history |-> Append(c.history, c.pixmap),
          redo_stack |-> c.redo_stack]
    ELSE c

redo(c) ==
    IF c.redo_stack # <<>>
    THEN [pixmap |-> c.redo_stack[Len(c.redo_stack)],
          history |-> Append(c.history, c.pixmap),
          redo_stack |-> SubSeq(c.redo_stack, 1, Len(c.redo_stack) - 1)]
    ELSE c

clear(c) == [save_state(c) EXCEPT !.pixmap = Filled(c.pixmap.w, c.pixmap.h, White)]

\* resizeEvent without the drawPixmap of the old pixmap.
Resized_blank(pm, w, h) == Filled(w, h, White)

\* resizeEvent's new pixmap: white, the old one drawn at (0, 0).
Resized(pm, w, h) ==
    [w |-> w, h |-> h,
     px |-> [p \in Points(w, h) |-> IF InBounds(pm, p[1], p[2]) THEN pm.px[p] ELSE White]]

\* Sizes loaded.scaled(self.size(), Qt.KeepAspectRatio) can have in a widget
\* of size s: inside s, touching it in one dimension.
ScaledSizes(s) == {t \in Sizes : t[1] <= s[1] /\ t[2] <= s[2] /\ (t[1] = s[1] \/ t[2] = s[2])}

(***************************************************************************)
(* Object identity.  self.pixmap and the entries of the two lists are      *)
(* references to QPixmap objects; what paints on an object is seen through *)
(* every reference to it.  A canvas of identities i has the fields of the  *)
(* canvas record, holding objects' names in place of their contents.       *)
(***************************************************************************)
Range(s) == {s[k] : k \in DOMAIN s}

\* The objects a canvas of identities refers to.
Used(i) == {i.pixmap} \cup Range(i.history) \cup Range(i.redo_stack)

\* QPixmap(...), QPixmap.scaled(...): an object that no reference names yet.
NewObject(used) == CHOOSE n \in 1 .. (Cardinality(used) + 1) : n \notin used

\* A copy() handing back the object it was called on.
copy_shared(obj, used) == obj

\* QPixmap.copy(): a new object (with the contents of obj).
copy(obj, used) == NewObject(used)

\* The canvas of identities with self.pixmap.copy() in the place of
\* self.pixmap: what save_state, undo and redo append.
Copied(i) == [i EXCEPT !.pixmap = copy(i.pixmap, Used(i))]

\* The identities after save_state: the copy is appended, self.pixmap stays.
SavedIds(i) == [save_state(Copied(i)) EXCEPT !.pixmap = i.pixmap]

\* The identities after undo and redo: the copy goes on one list, the object
\* popped off the other becomes self.pixmap.
UndoneIds(i) == IF i.history # <<>> THEN undo(Copied(i)) ELSE i

RedoneIds(i) == IF i.redo_stack # <<>> THEN redo(Copied(i)) ELSE i

\* Objects' names carry no meaning: each object is renamed to the place of
\* its first reference in self.pixmap, history, redo_stack (its own place
\* when no two references are to one object).
Canon(i) ==
    LET refs == <<i.pixmap>> \o i.history \o i.redo_stack
        name(obj) == CHOOSE k \in DOMAIN refs :
                        refs[k] = obj /\ \A j \in 1 .. (k - 1) : refs[j] # obj
    IN  IF Cardinality(Range(refs)) = Len(refs)
        THEN [pixmap |-> 1,
              history |-> [k \in DOMAIN i.history |-> k + 1],
              redo_stack |-> [k \in DOMAIN i.redo_stack |-> k + 1 + Len(i.history)]]
        ELSE [pixmap |-> name(i.pixmap),
              history |-> [k \in DOMAIN i.history |-> name(i.history[k])],
              redo_stack |-> [k \in DOMAIN i.redo_stack |-> name(i.redo_stack[k])]]

\* The contents of a list of snapshots once the object live has been painted
\* to contents px: the entries that are that object show px.
WriteThrough(snaps, snapIds, live, px) ==
    IF \A k \in DOMAIN snapIds : snapIds[k] # live
    THEN snaps
    ELSE [k \in DOMAIN snaps |-> IF snapIds[k] = live THEN px ELSE snaps[k]]

(***************************************************************************)
(* State.                                                                  *)
(***************************************************************************)
VARIABLES
    \* Canvas (src/main.py:28-45)
    pixmap,         \* self.pixmap
    history,        \* self.history, oldest first
    redo_stack,     \* self.redo_stack
    pen_color,      \* self.pen_color
    tool,           \* self.tool
    size,           \* self.size(), the widget's size
    leftDown,       \* the left button is held: event.buttons() & Qt.LeftButton
    hung,           \* a handler never returned: the event loop is stuck
    ids,            \* which object self.pixmap and each entry of history and
                    \* redo_stack is
    \* bookkeeping of the Canvas specification, read by the properties only
    last,           \* what the handler that ran last did, of: "save_evict" (save_state
                    \* dropped the oldest snapshot), "save_drop" (save_state emptied a
                    \* non-empty redo_stack), "undo_empty" (undo found history
                    \* empty), "open_none" (open_image loaded nothing while both
                    \* stacks held snapshots), "resized" (resizeEvent replaced a
                    \* painted pixmap while both stacks held snapshots),
                    \* "redo_full" (redo's append filled history to its
                    \* capacity), "press_early" (a bucket press returned at
                    \* bucket_fill's target == fill_color test, its save_state
                    \* neither evicting nor dropping); "none" otherwise
    bases,          \* the pixmaps before each of the latest consecutive recorded actions
    \* bucket_fill in SpecFill (src/main.py:130-168)
    img,            \* img
    stack,          \* stack
    target_color,   \* target_color
    replacement_color, \* replacement_color
    fpc,            \* "call": called; "loop": in `while stack`; "done": returned;
                    \* "overflow": the stack has outgrown StackCap
    \* bookkeeping of SpecFill, read by the properties only
    img0,           \* the buffer bucket_fill was called on
    start_point,    \* start_point
    iters           \* iterations of `while stack` so far, saturating

canvasVars == <<pixmap, history, redo_stack, pen_color, tool, size, leftDown, hung, ids, last, bases>>

fillVars == <<img, stack, target_color, replacement_color, fpc, img0, start_point, iters>>

vars == <<pixmap, history, redo_stack, pen_color, tool, size, leftDown, hung, ids, last, bases,
          img, stack, target_color, replacement_color, fpc, img0, start_point, iters>>

\* The canvas as the record the history functions work on.
Canvas == [pixmap |-> pixmap, history |-> history, redo_stack |-> redo_stack]

\* No bucket_fill of SpecFill is running.
FillIdle ==
    /\ img = Filled(1, 1, White)
    /\ stack = <<>>
    /\ target_color = White
    /\ replacement_color = White
    /\ fpc = "idle"
    /\ img0 = Filled(1, 1, White)
    /\ start_point = <<0, 0>>
    /\ iters = 0

\* The bookkeeping of a recorded action: remember the pixmap it started from.
Recorded(b, pm) ==
    LET appended == Append(b, pm)
    IN  IF Len(appended) > HistoryLimit THEN Tail(appended) ELSE appended

\* Which branch a save_state called now takes.
SaveBranch ==
    IF redo_stack # <<>> THEN "save_drop"
    ELSE IF Len(history) = HistoryLimit THEN "save_evict"
    ELSE "none"

(***************************************************************************)
(* The Canvas specification.                                               *)
(***************************************************************************)
\* Canvas.__init__: a white pixmap of the widget's size, empty stacks, black
\* pen, the Pen tool.
Init ==
    /\ size \in Sizes
    /\ pixmap = Filled(size[1], size[2], White)
    /\ history = <<>>
    /\ redo_stack = <<>>
    /\ pen_color = Black
    /\ tool = "Pen"
    /\ leftDown = FALSE
    /\ hung = FALSE
    /\ ids = [pixmap |-> 1, history |-> <<>>, redo_stack |-> <<>>]
    /\ last = "init"
    /\ bases = <<>>
    /\ FillIdle

\* resizeEvent: the widget has taken size s.
ResizeEvent(s) ==
    /\ ~hung
    /\ size' = s
    /\ pixmap' = IF <<pixmap.w, pixmap.h>> # s THEN Resized(pixmap, s[1], s[2]) ELSE pixmap
    /\ ids' = IF <<pixmap.w, pixmap.h>> # s
              THEN Canon([ids EXCEPT !.pixmap = NewObject(Used(ids))])
              ELSE ids
    /\ last' = IF /\ <<pixmap.w, pixmap.h>> # s
                  /\ \E p \in DOMAIN pixmap.px : pixmap.px[p] # White
                  /\ history # <<>> /\ redo_stack # <<>>
               THEN "resized" ELSE "none"
    /\ bases' = <<>>
    /\ UNCHANGED <<history, redo_stack, pen_color, tool, leftDown, hung>>
    /\ UNCHANGED fillVars

\* What a left press at p did, for last.
PressBranch(p) ==
    IF SaveBranch # "none" THEN SaveBranch
    ELSE IF /\ tool = "Bucket"
            /\ InBounds(pixmap, p[1], p[2])
            /\ EarlyReturn(pixelColor(pixmap, p[1], p[2]), pen_color)
         THEN "press_early"
    ELSE "none"

\* mousePressEvent calling save_state for the drawing tools only.
MousePressLeft_savesDrawingOnly(p) ==
    /\ ~hung
    /\ ~leftDown
    /\ LET saved == IF tool = "Bucket" THEN Canvas ELSE save_state(Canvas)
           fill == bucket_fill(saved.pixmap, p, pen_color)
       IN  /\ IF tool = "Bucket"
              THEN /\ pixmap' = IF fill.returned THEN fill.img ELSE pixmap
                   /\ hung' = ~fill.returned
              ELSE /\ pixmap' = pixmap
                   /\ hung' = FALSE
           /\ ids' = IF tool = "Bucket" THEN ids ELSE Canon(SavedIds(ids))
           /\ history' = WriteThrough(saved.history, ids'.history, ids'.pixmap, pixmap')
           /\ redo_stack' = WriteThrough(saved.redo_stack, ids'.redo_stack,
                                         ids'.pixmap, pixmap')
    /\ leftDown' = TRUE
    /\ last' = PressBranch(p)
    /\ bases' = Recorded(bases, pixmap)
    /\ UNCHANGED <<pen_color, tool, size>>
    /\ UNCHANGED fillVars

\* mousePressEvent with the left button at point p of the widget.
MousePressLeft(p) ==
    /\ ~hung
    /\ ~leftDown
    /\ LET saved == save_state(Canvas)
           fill == bucket_fill(saved.pixmap, p, pen_color)
       IN  /\ IF tool = "Bucket"
              THEN /\ pixmap' = IF fill.returned THEN fill.img ELSE pixmap
                   /\ hung' = ~fill.returned
              ELSE /\ pixmap' = pixmap
                   /\ hung' = FALSE
           /\ ids' = Canon(SavedIds(ids))
           \* convertFromImage paints on the object self.pixmap is
           /\ history' = WriteThrough(saved.history, ids'.history, ids'.pixmap, pixmap')
           /\ redo_stack' = WriteThrough(saved.redo_stack, ids'.redo_stack,
                                         ids'.pixmap, pixmap')
    /\ leftDown' = TRUE
    /\ last' = PressBranch(p)
    /\ bases' = Recorded(bases, pixmap)
    /\ UNCHANGED <<pen_color, tool, size>>
    /\ UNCHANGED fillVars

\* mousePressEvent with another button: nothing happens.
MousePressOther ==
    /\ ~hung
    /\ last' = "none"
    /\ UNCHANGED <<pixmap, history, redo_stack, pen_color, tool, size, leftDown, hung, ids, bases>>
    /\ UNCHANGED fillVars

\* mouseMoveEvent while the left button is held; S: the pixels drawLine touches.
MouseMoveEvent(S) ==
    /\ ~hung
    /\ leftDown
    /\ pixmap' = IF tool \in {"Pen", "Eraser"}
                 THEN Draw(pixmap, S, IF tool # "Eraser" THEN pen_color ELSE White)
                 ELSE pixmap
    \* QPainter(self.pixmap) paints on the object self.pixmap is
    /\ history' = WriteThrough(history, ids.history, ids.pixmap, pixmap')
    /\ redo_stack' = WriteThrough(redo_stack, ids.redo_stack, ids.pixmap, pixmap')
    /\ last' = "none"
    /\ UNCHANGED <<pen_color, tool, size, leftDown, hung, ids, bases>>
    /\ UNCHANGED fillVars

\* mouseReleaseEvent, of the left button (left) or of any other; S: the
\* pixels the shape's outline touches.
MouseReleaseEvent(left, S) ==
    /\ ~hung
    /\ left => leftDown
    /\ pixmap' = IF tool \in {"Line", "Rectangle", "Ellipse"}
                 THEN Draw(pixmap, S, pen_color)
                 ELSE pixmap
    /\ history' = WriteThrough(history, ids.history, ids.pixmap, pixmap')
    /\ redo_stack' = WriteThrough(redo_stack, ids.redo_stack, ids.pixmap, pixmap')
    /\ leftDown' = IF left THEN FALSE ELSE leftDown
    /\ last' = "none"
    /\ bases' = IF left THEN bases ELSE <<>>
    /\ UNCHANGED <<pen_color, tool, size, hung, ids>>
    /\ UNCHANGED fillVars

Undo ==
    /\ ~hung
    /\ LET c == undo(Canvas)
       IN  /\ pixmap' = c.pixmap
           /\ history' = c.history
           /\ redo_stack' = c.redo_stack
    /\ ids' = Canon(UndoneIds(ids))
    /\ last' = IF history # <<>> THEN "none" ELSE "undo_empty"
    /\ bases' = <<>>
    /\ UNCHANGED <<pen_color, tool, size, leftDown, hung>>
    /\ UNCHANGED fillVars

Redo ==
    /\ ~hung
    /\ LET c == redo(Canvas)
       IN  /\ pixmap' = c.pixmap
           /\ history' = c.history
           /\ redo_stack' = c.redo_stack
    /\ ids' = Canon(RedoneIds(ids))
    /\ last' = IF redo_stack # <<>> /\ Len(history) + 1 = HistoryLimit
               THEN "redo_full" ELSE "none"
    /\ bases' = <<>>
    /\ UNCHANGED <<pen_color, tool, size, leftDown, hung>>
    /\ UNCHANGED fillVars

Clear ==
    /\ ~hung
    /\ ids' = Canon(SavedIds(ids))
    /\ LET c == clear(Canvas)
       IN  /\ pixmap' = c.pixmap
           \* self.pixmap.fill paints on the object self.pixmap is
           /\ history' = WriteThrough(c.history, ids'.history, ids'.pixmap, c.pixmap)
           /\ redo_stack' = WriteThrough(c.redo_stack, ids'.redo_stack, ids'.pixmap, c.pixmap)
    /\ last' = SaveBranch
    /\ bases' = Recorded(bases, pixmap)
    /\ UNCHANGED <<pen_color, tool, size, leftDown, hung>>
    /\ UNCHANGED fillVars

\* open_image with a file that decodes: loaded is the scaled image.
OpenImage(loaded) ==
    /\ ~hung
    /\ LET saved == save_state(Canvas)
       IN  /\ history' = saved.history
           /\ redo_stack' = saved.redo_stack
    /\ LET savedIds == SavedIds(ids)
       IN  ids' = Canon([savedIds EXCEPT !.pixmap = NewObject(Used(savedIds))])
    /\ pixmap' = loaded
    /\ last' = SaveBranch
    /\ bases' = Recorded(bases, pixmap)
    /\ UNCHANGED <<pen_color, tool, size, leftDown, hung>>
    /\ UNCHANGED fillVars

\* open_image calling save_state before it looks at what it loaded.
OpenImageNone_saves ==
    /\ ~hung
    /\ LET saved == save_state(Canvas)
       IN  /\ history' = saved.history
           /\ redo_stack' = saved.redo_stack
    /\ ids' = Canon(SavedIds(ids))
    /\ last' = "none"
    /\ UNCHANGED <<pixmap, pen_color, tool, size, leftDown, hung, bases>>
    /\ UNCHANGED fillVars

\* open_image with the dialog cancelled (no path) or a file that does not
\* decode (loaded.isNull()).
OpenImageNone ==
    /\ ~hung
    /\ last' = IF history # <<>> /\ redo_stack # <<>> THEN "open_none" ELSE "none"
    /\ UNCHANGED <<pixmap, history, redo_stack, pen_color, tool, size, leftDown, hung, ids, bases>>
    /\ UNCHANGED fillVars

\* MainWindow.set_tool
SetTool(t) ==
    /\ ~hung
    /\ tool' = t
    /\ last' = "none"
    /\ UNCHANGED <<pixmap, history, redo_stack, pen_color, size, leftDown, hung, ids, bases>>
    /\ UNCHANGED fillVars

Next ==
    \/ \E s \in Sizes : ResizeEvent(s)
    \/ \E p \in Points(size[1], size[2]) : MousePressLeft(p)
    \/ MousePressOther
    \/ \E S \in SUBSET Points(pixmap.w, pixmap.h) : MouseMoveEvent(S)
    \/ \E left \in BOOLEAN : \E S \in SUBSET Points(pixmap.w, pixmap.h) : MouseReleaseEvent(left, S)
    \/ Undo
    \/ Redo
    \/ Clear
    \/ \E t \in ScaledSizes(size) : \E loaded \in Pixmaps(t[1], t[2], CanvasColors) : OpenImage(loaded)
    \/ OpenImageNone
    \/ \E t \in SelectedTools : SetTool(t)

Spec == Init /\ [][Next]_vars

(***************************************************************************)
(* SpecFill: bucket_fill alone, on every buffer of at most MaxPixels       *)
(* pixels over FillColors, from every point of the buffer and two points   *)
(* outside it, with every pen color of FillColors.                         *)
(***************************************************************************)
FillSizes == {s \in (1 .. MaxPixels) \X (1 .. MaxPixels) : s[1] * s[2] <= MaxPixels}

\* A stack no ending run reaches: such a run recolors no pixel twice, and a
\* recolored pixel pushes at most two points.
StackCap == 2 * MaxPixels + 1

InitFill ==
    /\ \E s \in FillSizes :
         /\ size = s
         /\ pixmap \in Pixmaps(s[1], s[2], FillColors)
         /\ start_point \in Points(s[1], s[2]) \cup {<<s[1], 0>>, <<-1, 0>>}
    /\ pen_color \in FillColors
    /\ history = <<>>
    /\ redo_stack = <<>>
    /\ tool = "Bucket"
    /\ leftDown = TRUE
    /\ hung = FALSE
    /\ ids = [pixmap |-> 1, history |-> <<>>, redo_stack |-> <<>>]
    /\ last = "none"
    /\ bases = <<>>
    /\ img = pixmap
    /\ img0 = pixmap
    /\ stack = <<>>
    /\ target_color = InvalidColor
    /\ replacement_color = pen_color
    /\ fpc = "call"
    /\ iters = 0

\* Lines 131-144: read the target, return at once if it is the pen color,
\* else start the stack with start_point.
FillEnter ==
    /\ fpc = "call"
    /\ target_color' = pixelColor(img, start_point[1], start_point[2])
    /\ IF EarlyReturn(target_color', replacement_color)
       THEN /\ fpc' = "done"
            /\ stack' = stack
       ELSE /\ fpc' = "loop"
            /\ stack' = <<start_point>>
    /\ UNCHANGED <<img, replacement_color, img0, start_point, iters>>
    /\ UNCHANGED canvasVars

\* Lines 145-165: one iteration of `while stack`.
FillStep ==
    /\ fpc = "loop"
    /\ stack # <<>>
    /\ LET r == FillIter(img, stack, target_color, replacement_color)
       IN  /\ img' = r.img
           /\ stack' = r.stack
           /\ fpc' = IF Len(r.stack) > StackCap THEN "overflow" ELSE "loop"
    /\ iters' = IF iters > Fuel(img) THEN iters ELSE iters + 1
    /\ UNCHANGED <<target_color, replacement_color, img0, start_point>>
    /\ UNCHANGED canvasVars

\* Lines 167-168: the stack is empty, the image goes back into the pixmap.
FillReturn ==
    /\ fpc = "loop"
    /\ stack = <<>>
    /\ pixmap' = img
    /\ fpc' = "done"
    /\ UNCHANGED <<history, redo_stack, pen_color, tool, size, leftDown, hung, ids, last, bases>>
    /\ UNCHANGED <<img, stack, target_color, replacement_color, img0, start_point, iters>>

NextFill ==
    \/ FillEnter
    \/ FillStep
    \/ FillReturn

SpecFill == InitFill /\ [][NextFill]_vars

\* The interpreter runs the loop without pause: a step that can be taken is
\* taken.
SpecFillFair == InitFill /\ [][NextFill]_vars /\ WF_vars(NextFill)

\* The iteration budget of RunFill is enough for every run that ends.
FuelSuffices == fpc = "done" => iters <= Fuel(img0)

(***************************************************************************)
(* Properties of the Canvas specification.                                 *)
(***************************************************************************)
\* The canvas after the step.
CanvasNext == [pixmap |-> pixmap', history |-> history', redo_stack |-> redo_stack']

\* A step that records an action: a step of a handler that calls
\* save_state.  OpenImage(loaded) sets pixmap' = loaded, so the image loaded
\* by such a step is pixmap'.
RecordStep ==
    \/ \E p \in Points(size[1], size[2]) : MousePressLeft(p)
    \/ Clear
    \/ /\ <<pixmap'.w, pixmap'.h>> \in ScaledSizes(size)
       /\ OpenImage(pixmap')

\* undo() called n times.
RECURSIVE UndoN(_, _)
UndoN(c, n) == IF n = 0 THEN c ELSE UndoN(undo(c), n - 1)

\* C1: after N recorded actions in a row (1 <= N <= the history's capacity,
\* no undo or redo among them), N calls of undo() leave the pixmap as it was
\* before the first of them.  bases holds the pixmaps before each of the
\* latest recorded actions, so this is stated for every such N at once.
C1_UndoRestoresBase ==
    \A n \in 1 .. Len(bases) : UndoN(Canvas, n).pixmap = bases[Len(bases) - n + 1]

\* As many recorded actions in a row as the history holds, the buffers
\* before them all different from each other and from the current one.
C1_Witness ==
    /\ Len(bases) = HistoryLimit
    /\ \A i, j \in 1 .. Len(bases) : i # j => bases[i] # bases[j]
    /\ \A i \in 1 .. Len(bases) : bases[i] # pixmap

\* C2 as stated: in every reachable state, undo() then redo() leaves the
\* pixmap as it was before the undo().
C2_UndoRedoIdentityAlways == redo(undo(Canvas)).pixmap = pixmap

\* C2 as amended: in every reachable state whose history is non-empty or
\* whose redo_stack is empty, undo() then redo() leaves the pixmap as it was
\* before the undo().
C2_UndoRedoIdentity ==
    (history # <<>> \/ redo_stack = <<>>) => redo(undo(Canvas)).pixmap = pixmap

\* An undo() that changes the pixmap, over a redo stack that already holds
\* another buffer.
C2_Witness ==
    /\ history # <<>>
    /\ redo_stack # <<>>
    /\ undo(Canvas).pixmap # pixmap
    /\ redo_stack[Len(redo_stack)] # pixmap

\* C3: a step that records an action leaves redo_stack empty, whatever it
\* held, and redo() is then without effect; redo_stack stays empty until the
\* next undo(), so the same goes for a redo() issued later.
C3_RecordClearsRedo ==
    /\ [][(redo_stack' = <<>> /\ redo(CanvasNext) = CanvasNext) \/ ~RecordStep]_vars
    /\ [][(redo_stack' = <<>> /\ redo(CanvasNext) = CanvasNext) \/ redo_stack # <<>> \/ Undo]_vars

\* A recorded action has just emptied a redo stack that held a snapshot.
C3_Witness == last = "save_drop" /\ redo_stack = <<>> /\ history # <<>>

\* C4: history never holds more snapshots than its capacity, and a recorded
\* action that finds it full drops the oldest snapshot, keeps the others in
\* order and puts the new one on top.
C4_HistoryBounded ==
    /\ [](Len(history) <= HistoryLimit)
    /\ [][(Len(history) = HistoryLimit /\ history' # Append(Tail(history), pixmap))
            => ~RecordStep]_vars

\* A recorded action has just evicted the oldest of distinct snapshots.
C4_Witness ==
    /\ last = "save_evict"
    /\ Len(history) = HistoryLimit
    /\ \A i, j \in 1 .. Len(history) : i # j => history[i] # history[j]

\* C9 as stated: every step that changes the pixmap's contents, other than
\* undo and redo themselves, records the pixmap first (the handler calls
\* save_state) or belongs to a gesture whose left-button press recorded it.
C9_MutationsRecorded ==
    [][pixmap' # pixmap => (RecordStep \/ leftDown \/ Undo \/ Redo)]_vars

\* C10: undo() with an empty history and redo() with an empty redo_stack
\* leave pixmap, history and redo_stack as they are.
C10_EmptyStackNoop ==
    /\ [][(Undo /\ history = <<>>) => UNCHANGED <<pixmap, history, redo_stack>>]_vars
    /\ [][(Redo /\ redo_stack = <<>>) => UNCHANGED <<pixmap, history, redo_stack>>]_vars

\* undo() has just run on an empty history while redo_stack held a snapshot.
C10_Witness == last = "undo_empty" /\ history = <<>> /\ redo_stack # <<>>

(***************************************************************************)
(* Properties of bucket_fill (SpecFill, SpecFillFair).                     *)
(***************************************************************************)
Adjacent(p, q) == Abs(p[1] - q[1]) + Abs(p[2] - q[2]) = 1

\* The points of buffer b that match color target and are 4-connected to a
\* point of S through such points, S included.
RECURSIVE Grow(_, _, _)
Grow(b, S, target) ==
    LET more == {q \in Points(b.w, b.h) \ S :
                    /\ similar(b.px[q], target)
                    /\ \E p \in S : Adjacent(p, q)}
    IN  IF more = {} THEN S ELSE Grow(b, S \cup more, target)

\* The region a fill of buffer b from point p is to recolor: none when p
\* is outside b.
Region(b, p) == IF InBounds(b, p[1], p[2]) THEN Grow(b, {p}, b.px[p]) ELSE {}

\* The buffer a fill of b from p with the given color is to produce.
Expected(b, p, color) ==
    [b EXCEPT !.px = [q \in Points(b.w, b.h) |-> IF q \in Region(b, p) THEN color ELSE b.px[q]]]

SeedInBounds == InBounds(img0, start_point[1], start_point[2])

SeedColor == pixelColor(img0, start_point[1], start_point[2])

Uniform(b) == \A p, q \in Points(b.w, b.h) : b.px[p] = b.px[q]

\* The run was cut because its stack outgrew StackCap.
Cut == fpc = "overflow"

\* C5 as stated: from an in-bounds seed with a fill color other than the
\* seed's, bucket_fill ends, and ends with the region of the seed recolored
\* and every other pixel as it was.  (A run cut at StackCap counts as fine:
\* what refutes this is a run that goes on within the cap.)
C5_FillsRegion ==
    (SeedInBounds /\ replacement_color # SeedColor)
        => <>(Cut \/ (fpc = "done" /\ pixmap = Expected(img0, start_point, replacement_color)))

\* What the code does keep of C5: when bucket_fill returns, the result is
\* this one.
FillsRegionWhenReturned ==
    (fpc = "done" /\ SeedInBounds /\ replacement_color # SeedColor)
        => pixmap = Expected(img0, start_point, replacement_color)

\* C6 as stated: bucket_fill terminates, whatever the buffer, the seed and
\* the fill color.
C6_Terminates == <>(Cut \/ fpc = "done")

\* C7 as stated: on a buffer of one color, from an in-bounds seed with
\* another fill color, bucket_fill ends with every pixel in the fill color.
C7_FillsUniformBuffer ==
    (SeedInBounds /\ Uniform(img0) /\ replacement_color # SeedColor)
        => <>(Cut \/ (fpc = "done" /\ pixmap = Filled(img0.w, img0.h, replacement_color)))

\* C8: when the seed pixel has the pen color, bucket_fill returns with the
\* buffer as it was.
C8_SameColorNoop ==
    (fpc \in {"loop", "done", "overflow"} /\ SeedColor = replacement_color)
        => (fpc = "done" /\ img = img0 /\ pixmap = img0 /\ stack = <<>>)

\* bucket_fill has returned from a seed of the pen color that has a
\* neighbour of another color within the tolerance.
C8_Witness ==
    /\ fpc = "done"
    /\ SeedColor = replacement_color
    /\ \E q \in Points(img0.w, img0.h) :
         /\ Adjacent(start_point, q)
         /\ img0.px[q] # replacement_color
         /\ similar(img0.px[q], replacement_color)

\* C11: open_image with the dialog cancelled or with a file that does not
\* decode leaves pixmap, history and redo_stack as they are.
C11_FailedOpenNoop ==
    [][OpenImageNone => UNCHANGED <<pixmap, history, redo_stack>>]_vars

\* open_image has just loaded nothing on a canvas whose two stacks hold
\* snapshots different from the pixmap.
C11_Witness ==
    /\ last = "open_none"
    /\ history # <<>> /\ history[Len(history)] # pixmap
    /\ redo_stack # <<>> /\ redo_stack[Len(redo_stack)] # pixmap

Min(a, b) == IF a <= b THEN a ELSE b

\* new is old resized to w x h as the claim describes it.
ResizePost(old, new, w, h) ==
    /\ new.w = w /\ new.h = h
    /\ DOMAIN new.px = Points(w, h)
    /\ \A p \in Points(w, h) :
          new.px[p] = IF p[1] < Min(old.w, w) /\ p[2] < Min(old.h, h)
                      THEN old.px[p] ELSE White

\* Sizes resizeEvent's pixmap construction is checked for, on every reachable
\* pixmap: the widget's sizes and two taller ones.
ResizeSizes == Sizes \cup {<<1, 2>>, <<2, 2>>}

C15_StacksBounded ==
    /\ Len(history) + Len(redo_stack) <= HistoryLimit
    /\ Len(history) <= HistoryLimit
    /\ Len(redo_stack) <= HistoryLimit

\* redo has just appended to a history one short of its capacity.
C15_Witness ==
    /\ last = "redo_full"
    /\ Len(history) = HistoryLimit

\* A step of mousePressEvent with the left button: the only handler after
\* which the button is down when it was up before.
LeftPressStep == ~leftDown /\ leftDown'

\* C16: every left-button press records exactly one snapshot, the pixmap it
\* found, and empties redo_stack, whatever the tool; when the press changed
\* no pixel (a bucket press returning early, a pen press before any drag) and
\* returned, the following undo() pops that snapshot and leaves the pixmap
\* contents the same.
C16_PressRecordsOnce ==
    [][LeftPressStep
         => /\ redo_stack' = <<>>
            /\ \/ history' = Append(history, pixmap)
               \/ /\ Len(history) = HistoryLimit
                  /\ history' = Tail(Append(history, pixmap))
            /\ (pixmap' = pixmap /\ ~hung')
                 => LET u == undo(CanvasNext)
                    IN  /\ u.pixmap = pixmap
                        /\ u.history = SubSeq(history', 1, Len(history') - 1)
                        /\ u.redo_stack = <<pixmap>>]_vars

\* A bucket press has just returned early on a canvas with earlier history:
\* the snapshot on top of history equals the unchanged pixmap.
C16_Witness ==
    /\ last = "press_early"
    /\ tool = "Bucket" /\ leftDown /\ ~hung
    /\ Len(history) >= 2
    /\ history[Len(history)] = pixmap
    /\ redo_stack = <<>>

IsPrefix(a, b) == Len(a) <= Len(b) /\ a = SubSeq(b, 1, Len(a))

\* The list new holds the snapshots of old with their contents, but for pops
\* off its end, a push of contents pushed and the eviction of its oldest.
SnapshotsKept(old, new, pushed) ==
    \/ IsPrefix(new, old)
    \/ new = Append(old, pushed)
    \/ new = Tail(Append(old, pushed))

\* C12: the object self.pixmap is none of the snapshots held in history or
\* redo_stack, and no step changes the contents of a snapshot that stays on
\* its list: a list only loses entries at its ends and gains the contents the
\* pixmap had when the entry was pushed.
C12_SnapshotsNotAliased ==
    /\ [](ids.pixmap \notin Range(ids.history) \cup Range(ids.redo_stack))
    /\ [][/\ SnapshotsKept(history, history', pixmap)
          /\ SnapshotsKept(redo_stack, redo_stack', pixmap)]_vars

\* The pixmap has been painted since a press recorded it: the snapshot on
\* top of a full history is another object and shows the earlier contents.
C12_Witness ==
    /\ leftDown /\ bases # <<>>
    /\ Len(history) = HistoryLimit
    /\ history[Len(history)] = bases[Len(bases)]
    /\ history[Len(history)] # pixmap
    /\ ids.pixmap \notin Range(ids.history)

\* On a buffer of one column and at most two rows the stack never holds more
\* than one point: the most a buffer of that height needs.
OneColumnStack == (img0.w = 1 /\ img0.h <= 2) => Len(stack) <= 1

\* C14: the stack length is bounded by a function of the number of rows
\* alone; for buffers of at most two rows, whatever their width, the stack
\* stays as short as on the one-column buffer of that height.
C14_StackBoundedByRows == img0.h <= 2 => Len(stack) <= 1

\* The same on inputs where the fill color is outside the tolerance of the
\* target, so that the fill ends: the stack still grows with the width.
StackBoundedByRowsWhenEnding ==
    (img0.h <= 2 /\ fpc = "loop" /\ ~similar(replacement_color, target_color))
        => Len(stack) <= 1

====
